---- MODULE Spec2Model ----
(***************************************************************************)
(* telegram-post-cli: one CLI invocation (main of tg/cli.py or of          *)
(* telegram_post/cli.py) and the TelegramClient operations it calls.       *)
(* Python strings whose content matters are sequences of one-character     *)
(* strings; the remote endpoint, the file system and stdin are inputs      *)
(* drawn when the code reads them.                                         *)
(***************************************************************************)
EXTENDS Integers, Sequences, FiniteSets, TLC

VARIABLES
    variant,      \* which CLI package runs: "tg" or "telegram_post"
    args,         \* argparse.Namespace produced from argv
    config,       \* telegram_post ConfigStore: the stored bot_token or NoStr
    pc,           \* position of the invocation
    bot_token,    \* local bot_token of main
    channel,      \* local channel of main (normalized)
    text,         \* local text of main
    caption,      \* local caption of main
    client,       \* TelegramClient instances constructed (their _api_url)
    request,      \* arguments of the last session.post
    calls,        \* endpoints POSTed to, in order
    fileOpen,     \* the photo file handle is open
    opens,        \* number of open() calls on the photo
    imgSize,      \* size on disk of the image file (st_size), -1 while no file is known
    resp,         \* response object returned by session.post
    exc,          \* exception raised by the client operation
    result,       \* PostResult returned by the client operation
    stdout,       \* what main printed to standard output
    stderr,       \* what was printed to standard error
    exitCode      \* process exit status

vars == <<variant, args, config, pc, bot_token, channel, text, caption, client,
          request, calls, fileOpen, opens, imgSize, resp, exc, result, stdout,
          stderr, exitCode>>

----------------------------------------------------------------------------
(* Bounds *)

MaxChannelLen == 2
MaxTextLen == 1
MaxMessageId == 1

----------------------------------------------------------------------------
(* Values *)

\* Python None for a str | None whose content is a character sequence.
None == <<"None">>
\* Python None / unset for values kept as opaque strings.
NoStr == "None"

ChannelChars == {"@", "1"}
TextChars == {" ", "a"}

SeqsUpTo(S, n) == UNION {[1..k -> S] : k \in 0..n}

Truthy(s) == s # None /\ s # <<>>

\* x or y
Or(x, y) == IF Truthy(x) THEN x ELSE y

_BASE_URL == "https://api.telegram.org/bot"
_SUPPORTED_IMAGE_TYPES ==
    { <<".", "j", "p", "g">>, <<".", "j", "p", "e", "g">>, <<".", "p", "n", "g">>,
      <<".", "g", "i", "f">>, <<".", "w", "e", "b", "p">> }
_MAX_IMAGE_SIZE == 10 * 1024 * 1024

ParseModes == {"HTML", "Markdown", "MarkdownV2"}

\* str.lower on one character
LowerChar(c) ==
    CASE c = "B" -> "b"
      [] c = "E" -> "e"
      [] c = "F" -> "f"
      [] c = "G" -> "g"
      [] c = "I" -> "i"
      [] c = "J" -> "j"
      [] c = "M" -> "m"
      [] c = "N" -> "n"
      [] c = "P" -> "p"
      [] c = "W" -> "w"
      [] OTHER -> c

\* str.lower
Lower(s) == [i \in 1..Len(s) |-> LowerChar(s[i])]

IsSpace(c) == c = " "

RECURSIVE LStrip(_)
LStrip(s) == IF s # <<>> /\ IsSpace(s[1]) THEN LStrip(Tail(s)) ELSE s

RECURSIVE RStrip(_)
RStrip(s) ==
    IF s # <<>> /\ IsSpace(s[Len(s)]) THEN RStrip(SubSeq(s, 1, Len(s) - 1)) ELSE s

\* str.strip
Strip(s) == RStrip(LStrip(s))

----------------------------------------------------------------------------
(* client.py: pure helpers *)

\* normalize_channel without the startswith test
normalize_channel_AlwaysPrefix(c) == <<"@">> \o c

normalize_channel(c) ==
    IF c # <<>> /\ c[1] = "@" THEN c ELSE <<"@">> \o c

\* _validate_image rejecting a file of exactly the maximum size
_validate_image_AtLimit(suffix, size) ==
    IF Lower(suffix) \notin _SUPPORTED_IMAGE_TYPES
    THEN [type |-> "ValueError", kind |-> "InvalidFormat", suffix |-> Lower(suffix)]
    ELSE IF size >= _MAX_IMAGE_SIZE
         THEN [type |-> "ValueError", kind |-> "TooLarge", size |-> size]
         ELSE [type |-> "ok"]

\* Outcome of _validate_image for a suffix and a stat size.
_validate_image(suffix, size) ==
    IF Lower(suffix) \notin _SUPPORTED_IMAGE_TYPES
    THEN [type |-> "ValueError", kind |-> "InvalidFormat", suffix |-> Lower(suffix)]
    ELSE IF size > _MAX_IMAGE_SIZE
         THEN [type |-> "ValueError", kind |-> "TooLarge", size |-> size]
         ELSE [type |-> "ok"]

\* one decimal digit as a character
Digit(d) ==
    CASE d = 0 -> "0" [] d = 1 -> "1" [] d = 2 -> "2" [] d = 3 -> "3" [] d = 4 -> "4"
      [] d = 5 -> "5" [] d = 6 -> "6" [] d = 7 -> "7" [] d = 8 -> "8" [] d = 9 -> "9"

\* str(n) of a non-negative int, as an f-string renders it
RECURSIVE Str(_)
Str(n) == IF n < 10 THEN <<Digit(n)>> ELSE Append(Str(n \div 10), Digit(n % 10))

\* _build_url keeping the whole chat_id in the path
_build_url_KeepAt(chat_id, message_id) ==
    <<"https://t.me/">> \o chat_id \o <<"/">> \o Str(message_id)

\* f"https://t.me/{chat_id[1:]}/{message_id}": the scheme and host as one
\* element, then the characters of the path
_build_url(chat_id, message_id) ==
    <<"https://t.me/">> \o SubSeq(chat_id, 2, Len(chat_id)) \o <<"/">>
        \o Str(message_id)

PostResult(message_id, url) == [message_id |-> message_id, url |-> url]

NoResult == [message_id |-> 0]
NoExc == [type |-> "None"]
NoResp == [status_code |-> 0]
NoRequest == [endpoint |-> "None"]

\* requests.Response.ok: raise_for_status raises for 4xx and 5xx only.
Ok(r) == ~(400 <= r.status_code /\ r.status_code < 600)

\* MessageBody always carrying the parse_mode key
MessageBody_NullParseMode(chat_id, txt, parse_mode) ==
    [chat_id |-> chat_id, text |-> txt, parse_mode |-> parse_mode]

\* body of send_message (the json= argument)
MessageBody(chat_id, txt, parse_mode) ==
    LET body == [chat_id |-> chat_id, text |-> txt]
    IN IF parse_mode # NoStr THEN body @@ ("parse_mode" :> parse_mode) ELSE body

\* data of send_photo (the data= argument)
PhotoData(chat_id, cap, parse_mode) ==
    LET data0 == [chat_id |-> chat_id]
        data1 == IF cap # None THEN data0 @@ ("caption" :> cap) ELSE data0
    IN IF parse_mode # NoStr THEN data1 @@ ("parse_mode" :> parse_mode) ELSE data1

----------------------------------------------------------------------------
(* Inputs *)

Channels == SeqsUpTo(ChannelChars, MaxChannelLen)
Texts == SeqsUpTo(TextChars, MaxTextLen)
Suffixes ==
    { <<".", "p", "n", "g">>, <<".", "P", "N", "G">>, <<".", "j", "p", "e", "g">>,
      <<".", "b", "m", "p">>, <<>> }
\* file sizes around the limit
Sizes == {_MAX_IMAGE_SIZE - 1, _MAX_IMAGE_SIZE, _MAX_IMAGE_SIZE + 1}
Tokens == {"123:FAKE"}
Statuses == {200, 304, 400, 429}
\* message ids the endpoint assigns: small ones and the two-digit 42
MessageIds == (1..MaxMessageId) \cup {42}

\* Response bodies: text that is not JSON, and JSON objects with and without
\* "result" and "message_id".
Bodies ==
    { [raw |-> "error", json |-> FALSE, hasResult |-> FALSE, hasId |-> FALSE, id |-> 0],
      [raw |-> "{}", json |-> TRUE, hasResult |-> FALSE, hasId |-> FALSE, id |-> 0],
      [raw |-> "{result:{}}", json |-> TRUE, hasResult |-> TRUE, hasId |-> FALSE, id |-> 0] }
    \cup { [raw |-> "{result:{message_id}}", json |-> TRUE, hasResult |-> TRUE,
            hasId |-> TRUE, id |-> m] : m \in MessageIds }

Responses == { [status_code |-> s, body |-> b] : s \in Statuses, b \in Bodies }

Argvs ==
    [ text : {None} \cup Texts,
      from_file : BOOLEAN,
      image : {None} \cup Suffixes,
      channel : {None} \cup Channels,
      parse_mode : {NoStr} \cup ParseModes,
      reset_keys : BOOLEAN ]

Init ==
    /\ variant \in {"tg", "telegram_post"}
    /\ args \in Argvs
    /\ variant = "tg" => args.reset_keys = FALSE
    /\ config \in {NoStr} \cup Tokens
    /\ variant = "tg" => config = NoStr
    /\ pc = "parse_args"
    /\ bot_token = NoStr
    /\ channel = None
    /\ text = None
    /\ caption = None
    /\ client = {}
    /\ request = NoRequest
    /\ calls = <<>>
    /\ fileOpen = FALSE
    /\ opens = 0
    /\ imgSize = -1
    /\ resp = NoResp
    /\ exc = NoExc
    /\ result = NoResult
    /\ stdout = <<>>
    /\ stderr = <<>>
    /\ exitCode = -1

\* sys.exit(code) after a message on stderr, or an uncaught exception (the
\* interpreter prints the traceback and exits with 1)
Exit(code, message) ==
    /\ pc' = "exited"
    /\ exitCode' = code
    /\ stderr' = Append(stderr, message)

\* _parse_args: argparse ends the process with status 2 when --channel is absent
ParseArgs ==
    /\ pc = "parse_args"
    /\ IF args.channel = None
       THEN Exit(2, "error: the following arguments are required: --channel")
       ELSE /\ pc' = "credential"
            /\ UNCHANGED <<exitCode, stderr>>
    /\ UNCHANGED <<variant, args, config, bot_token, channel, text, caption, client,
                   request, calls, fileOpen, opens, imgSize, resp, exc, result, stdout>>

\* LoadCredential without the empty check
LoadCredential_NoCheck ==
    /\ pc = "credential"
    /\ variant = "tg"
    /\ bot_token' \in {""} \cup Tokens
    /\ pc' = "normalize"
    /\ UNCHANGED <<variant, args, config, channel, text, caption, client, request,
                   calls, fileOpen, opens, imgSize, resp, exc, result, stdout,
                   exitCode, stderr>>

\* tg main: dotenv.load_dotenv, os.getenv("BOT_TOKEN", ""), the empty check
LoadCredential ==
    /\ pc = "credential"
    /\ variant = "tg"
    /\ \E tok \in {""} \cup Tokens :
         /\ bot_token' = tok
         /\ IF tok = ""
            THEN Exit(1, "BOT_TOKEN must be set in .env")
            ELSE /\ pc' = "normalize"
                 /\ UNCHANGED <<exitCode, stderr>>
    /\ UNCHANGED <<variant, args, config, channel, text, caption, client, request,
                   calls, fileOpen, opens, imgSize, resp, exc, result, stdout>>

\* telegram_post main: --reset-keys removes the stored bot_token
ResetKeys ==
    /\ pc = "credential"
    /\ variant = "telegram_post"
    /\ config' = IF args.reset_keys THEN NoStr ELSE config
    /\ pc' = "prompt"
    /\ UNCHANGED <<variant, args, bot_token, channel, text, caption, client, request,
                   calls, fileOpen, opens, imgSize, resp, exc, result, stdout, exitCode,
                   stderr>>

\* telegram_post.config.prompt_if_missing: the stored value when there is one,
\* otherwise the value typed at the prompt, which is stored; an empty answer
\* ends the invocation (MissingCredential).
PromptIfMissing ==
    /\ pc = "prompt"
    /\ IF config # NoStr
       THEN /\ bot_token' = config
            /\ pc' = "normalize"
            /\ UNCHANGED <<config, exitCode, stderr>>
       ELSE \E typed \in {""} \cup Tokens :
              IF typed = ""
              THEN /\ bot_token' = typed
                   /\ Exit(1, "MissingCredential")
                   /\ UNCHANGED config
              ELSE /\ config' = typed
                   /\ bot_token' = typed
                   /\ pc' = "normalize"
                   /\ UNCHANGED <<exitCode, stderr>>
    /\ UNCHANGED <<variant, args, channel, text, caption, client, request, calls,
                   fileOpen, opens, imgSize, resp, exc, result, stdout>>

\* channel = normalize_channel(args.channel)
NormalizeChannel ==
    /\ pc = "normalize"
    /\ channel' = normalize_channel(args.channel)
    /\ pc' = "image_exists"
    /\ UNCHANGED <<variant, args, config, bot_token, text, caption, client, request,
                   calls, fileOpen, opens, imgSize, resp, exc, result, stdout, exitCode,
                   stderr>>

\* if args.image: if not args.image.exists(): sys.exit(1)
\* An existing file has a size on disk, which _validate_image reads later.
CheckImage ==
    /\ pc = "image_exists"
    /\ IF args.image = None
       THEN /\ pc' = "read_text"
            /\ UNCHANGED <<imgSize, exitCode, stderr>>
       ELSE \/ /\ Exit(1, "Image not found")
               /\ UNCHANGED imgSize
            \/ /\ imgSize' \in Sizes
               /\ pc' = "read_text"
               /\ UNCHANGED <<exitCode, stderr>>
    /\ UNCHANGED <<variant, args, config, bot_token, channel, text, caption, client,
                   request, calls, fileOpen, opens, resp, exc, result, stdout>>

\* _read_post_text(args), given what the file and stdin hold
_read_post_text(a, fileContent, stdinContent) ==
    IF Truthy(a.text) THEN a.text
    ELSE IF a.from_file THEN Strip(fileContent)
    ELSE Strip(stdinContent)

\* text = _read_post_text(args) if not args.image else (args.text or "")
\* followed by the empty-text check
ReadText ==
    /\ pc = "read_text"
    /\ \/ /\ args.image = None
          /\ \E fileContent \in Texts, stdinContent \in Texts :
               /\ text' = _read_post_text(args, fileContent, stdinContent)
               /\ IF ~Truthy(text')
                  THEN Exit(1, "Empty message text, aborting.")
                  ELSE /\ pc' = "construct"
                       /\ UNCHANGED <<exitCode, stderr>>
       \/ \* from_file.read_text raises (no such file): uncaught, status 1
          /\ args.image = None
          /\ ~Truthy(args.text)
          /\ args.from_file
          /\ Exit(1, "Traceback: FileNotFoundError")
          /\ UNCHANGED text
       \/ /\ args.image # None
          /\ text' = Or(args.text, <<>>)
          /\ pc' = "construct"
          /\ UNCHANGED <<exitCode, stderr>>
    /\ UNCHANGED <<variant, args, config, bot_token, channel, caption, client, request,
                   calls, fileOpen, opens, imgSize, resp, exc, result, stdout>>

\* client = TelegramClient(bot_token)
ConstructClient ==
    /\ pc = "construct"
    /\ client' = client \cup {[api_url |-> <<_BASE_URL, bot_token>>]}
    /\ pc' = "dispatch"
    /\ UNCHANGED <<variant, args, config, bot_token, channel, text, caption, request,
                   calls, fileOpen, opens, imgSize, resp, exc, result, stdout, exitCode,
                   stderr>>

\* the image branch of main up to the call of client.send_photo
CallSendPhoto ==
    /\ pc = "dispatch"
    /\ args.image # None
    /\ IF args.from_file /\ ~Truthy(args.text)
       THEN \/ \E fileContent \in Texts :
                 /\ caption' = Or(Strip(fileContent), None)
                 /\ pc' = "sp_validate"
                 /\ UNCHANGED <<exitCode, stderr>>
            \/ \* from_file.read_text raises: uncaught, status 1
               /\ Exit(1, "Traceback: FileNotFoundError")
               /\ UNCHANGED caption
       ELSE /\ caption' = Or(text, None)
            /\ pc' = "sp_validate"
            /\ UNCHANGED <<exitCode, stderr>>
    /\ UNCHANGED <<variant, args, config, bot_token, channel, text, client, request,
                   calls, fileOpen, opens, imgSize, resp, exc, result, stdout>>

\* the text branch of main: the call of client.send_message
CallSendMessage ==
    /\ pc = "dispatch"
    /\ args.image = None
    /\ pc' = "sm_post"
    /\ UNCHANGED <<variant, args, config, bot_token, channel, text, caption, client,
                   request, calls, fileOpen, opens, imgSize, resp, exc, result, stdout,
                   exitCode,
                   stderr>>

\* CheckResponse building the PostResult without looking for message_id
CheckResponse_NoIdCheck(r) ==
    IF ~(400 <= r.status_code /\ r.status_code < 600)
    THEN IF r.body.json /\ r.body.hasResult THEN [type |-> "None"]
         ELSE [type |-> "KeyError", key |-> "result"]
    ELSE [type |-> "HTTPError", status_code |-> r.status_code, text |-> r.body.raw]

\* CheckResponse raising with the status code only
CheckResponse_NoBody(r) ==
    IF ~(400 <= r.status_code /\ r.status_code < 600)
    THEN IF ~r.body.json THEN [type |-> "JSONDecodeError"]
         ELSE IF ~r.body.hasResult THEN [type |-> "KeyError", key |-> "result"]
         ELSE IF ~r.body.hasId THEN [type |-> "KeyError", key |-> "message_id"]
         ELSE [type |-> "None"]
    ELSE [type |-> "HTTPError", status_code |-> r.status_code, text |-> ""]

\* What the response check after session.post does (the same lines in
\* send_message and send_photo): the exception raised, or NoExc.
CheckResponse(r) ==
    IF ~Ok(r)
    THEN [type |-> "HTTPError", status_code |-> r.status_code, text |-> r.body.raw]
    ELSE IF ~r.body.json THEN [type |-> "JSONDecodeError"]
    ELSE IF ~r.body.hasResult THEN [type |-> "KeyError", key |-> "result"]
    ELSE IF ~r.body.hasId THEN [type |-> "KeyError", key |-> "message_id"]
    ELSE NoExc

\* TelegramClient.send_message: the body and the POST
SendMessagePost ==
    /\ pc = "sm_post"
    /\ request' = [endpoint |-> "sendMessage",
                   json |-> MessageBody(channel, text, args.parse_mode)]
    /\ calls' = Append(calls, "sendMessage")
    /\ \/ /\ resp' \in Responses
          /\ pc' = "sm_check"
          /\ UNCHANGED exc
       \/ \* the transport raises (no response)
          /\ exc' = [type |-> "ConnectionError"]
          /\ pc' = "raised"
          /\ UNCHANGED resp
    /\ UNCHANGED <<variant, args, config, bot_token, channel, text, caption, client,
                   fileOpen, opens, imgSize, result, stdout, exitCode,
                   stderr>>

\* SendMessageCheck posting once more when the endpoint answers 429
SendMessageCheck_Retry ==
    /\ pc = "sm_check"
    /\ LET e == CheckResponse(resp)
       IN IF e # NoExc
          THEN IF resp.status_code = 429 /\ Len(calls) < 2
               THEN /\ pc' = "sm_post"
                    /\ UNCHANGED <<exc, result>>
               ELSE /\ exc' = e
                    /\ pc' = "raised"
                    /\ UNCHANGED result
          ELSE /\ result' = PostResult(resp.body.id, _build_url(channel, resp.body.id))
               /\ pc' = "returned"
               /\ UNCHANGED exc
    /\ UNCHANGED <<variant, args, config, bot_token, channel, text, caption, client,
                   request, calls, fileOpen, opens, imgSize, resp, stdout, exitCode,
                   stderr>>

\* TelegramClient.send_message: the response check and the PostResult
SendMessageCheck ==
    /\ pc = "sm_check"
    /\ LET e == CheckResponse(resp)
       IN IF e # NoExc
          THEN /\ exc' = e
               /\ pc' = "raised"
               /\ UNCHANGED result
          ELSE /\ result' = PostResult(resp.body.id, _build_url(channel, resp.body.id))
               /\ pc' = "returned"
               /\ UNCHANGED exc
    /\ UNCHANGED <<variant, args, config, bot_token, channel, text, caption, client,
                   request, calls, fileOpen, opens, imgSize, resp, stdout, exitCode,
                   stderr>>

\* SendPhotoValidate going on to the upload whatever the validator found
SendPhotoValidate_Ignored ==
    /\ pc = "sp_validate"
    /\ pc' = "sp_open"
    /\ UNCHANGED <<variant, args, config, bot_token, channel, text, caption, client,
                   request, calls, fileOpen, opens, imgSize, resp, exc, result, stdout,
                   exitCode, stderr>>

\* TelegramClient.send_photo: _validate_image(photo_path)
SendPhotoValidate ==
    /\ pc = "sp_validate"
    /\ LET e == _validate_image(args.image, imgSize)
       IN IF e.type = "ok"
          THEN /\ pc' = "sp_open"
               /\ UNCHANGED exc
          ELSE /\ exc' = e
               /\ pc' = "raised"
    /\ UNCHANGED <<variant, args, config, bot_token, channel, text, caption, client,
                   request, calls, fileOpen, opens, imgSize, resp, result, stdout,
                   exitCode,
                   stderr>>

\* TelegramClient.send_photo: open(photo_path, "rb") entering the with block
SendPhotoOpen ==
    /\ pc = "sp_open"
    /\ \/ /\ fileOpen' = TRUE
          /\ opens' = opens + 1
          /\ pc' = "sp_post"
          /\ UNCHANGED exc
       \/ \* open raises (e.g. no read permission): no handle
          /\ exc' = [type |-> "OSError"]
          /\ pc' = "raised"
          /\ UNCHANGED <<fileOpen, opens>>
    /\ UNCHANGED <<variant, args, config, bot_token, channel, text, caption, client,
                   request, calls, imgSize, resp, result, stdout, exitCode,
                   stderr>>

\* TelegramClient.send_photo: the POST inside the with block
SendPhotoPost ==
    /\ pc = "sp_post"
    /\ request' = [endpoint |-> "sendPhoto",
                   data |-> PhotoData(channel, caption, args.parse_mode),
                   files |-> {"photo"}]
    /\ calls' = Append(calls, "sendPhoto")
    /\ \/ /\ resp' \in Responses
          /\ UNCHANGED exc
       \/ \* the transport raises (no response)
          /\ exc' = [type |-> "ConnectionError"]
          /\ UNCHANGED resp
    /\ pc' = "sp_exit_with"
    /\ UNCHANGED <<variant, args, config, bot_token, channel, text, caption, client,
                   fileOpen, opens, imgSize, result, stdout, exitCode,
                   stderr>>

\* SendPhotoClose as f.close() after the request, skipped when the request raises
SendPhotoClose_NoFinally ==
    /\ pc = "sp_exit_with"
    /\ fileOpen' = (exc # NoExc)
    /\ pc' = IF exc # NoExc THEN "raised" ELSE "sp_check"
    /\ UNCHANGED <<variant, args, config, bot_token, channel, text, caption, client,
                   request, calls, opens, imgSize, resp, exc, result, stdout, exitCode,
                   stderr>>

\* TelegramClient.send_photo: leaving the with block closes the file, whether
\* the block ended normally or by an exception
SendPhotoClose ==
    /\ pc = "sp_exit_with"
    /\ fileOpen' = FALSE
    /\ pc' = IF exc # NoExc THEN "raised" ELSE "sp_check"
    /\ UNCHANGED <<variant, args, config, bot_token, channel, text, caption, client,
                   request, calls, opens, imgSize, resp, exc, result, stdout, exitCode,
                   stderr>>

\* TelegramClient.send_photo: the response check and the PostResult
SendPhotoCheck ==
    /\ pc = "sp_check"
    /\ LET e == CheckResponse(resp)
       IN IF e # NoExc
          THEN /\ exc' = e
               /\ pc' = "raised"
               /\ UNCHANGED result
          ELSE /\ result' = PostResult(resp.body.id, _build_url(channel, resp.body.id))
               /\ pc' = "returned"
               /\ UNCHANGED exc
    /\ UNCHANGED <<variant, args, config, bot_token, channel, text, caption, client,
                   request, calls, fileOpen, opens, imgSize, resp, stdout, exitCode,
                   stderr>>

\* print(f"Message posted!\n{result.url}") and the normal end of main
PrintResult ==
    /\ pc = "returned"
    /\ stdout' = Append(stdout, result.url)
    /\ pc' = "done"
    /\ exitCode' = 0
    /\ UNCHANGED stderr
    /\ UNCHANGED <<variant, args, config, bot_token, channel, text, caption, client,
                   request, calls, fileOpen, opens, imgSize, resp, exc, result>>

\* except ValueError: JSONDecodeError of requests is a ValueError too
IsValueError(e) == e.type \in {"ValueError", "JSONDecodeError"}

\* ExceptionExit with an except branch that prints and does not exit
ExceptionExit_Swallowed ==
    /\ pc = "raised"
    /\ IF args.image # None /\ IsValueError(exc)
       THEN /\ pc' = "done"
            /\ exitCode' = 0
            /\ stderr' = Append(stderr, "str(exc)")
       ELSE Exit(1, "Traceback")
    /\ UNCHANGED <<variant, args, config, bot_token, channel, text, caption, client,
                   request, calls, fileOpen, opens, imgSize, resp, exc, result, stdout>>

\* An exception leaves the client operation: around send_photo a ValueError
\* (JSONDecodeError is one) is caught and main calls sys.exit(1); anything
\* else is uncaught and the interpreter exits with status 1.
ExceptionExit ==
    /\ pc = "raised"
    /\ IF args.image # None /\ IsValueError(exc)
       THEN Exit(1, "str(exc)")
       ELSE Exit(1, "Traceback")
    /\ UNCHANGED <<variant, args, config, bot_token, channel, text, caption, client,
                   request, calls, fileOpen, opens, imgSize, resp, exc, result, stdout>>

Next ==
    \/ ParseArgs
    \/ LoadCredential
    \/ ResetKeys
    \/ PromptIfMissing
    \/ NormalizeChannel
    \/ CheckImage
    \/ ReadText
    \/ ConstructClient
    \/ CallSendPhoto
    \/ CallSendMessage
    \/ SendMessagePost
    \/ SendMessageCheck
    \/ SendPhotoValidate
    \/ SendPhotoOpen
    \/ SendPhotoPost
    \/ SendPhotoClose
    \/ SendPhotoCheck
    \/ PrintResult
    \/ ExceptionExit

Spec == Init /\ [][Next]_vars

\* the invocation reacts to what it is given: no step stays pending forever
FairSpec == Spec /\ WF_vars(Next)

----------------------------------------------------------------------------
(* Claims *)

Range(f) == {f[i] : i \in DOMAIN f}

Terminated == pc \in {"done", "exited"}

\* C1: every invocation of either CLI issues at most one POST, to sendMessage
\* or to sendPhoto and never to both, and then terminates.
C1_AtMostOneCallThenTerminates ==
    /\ [](calls \in {<<>>, <<"sendMessage">>, <<"sendPhoto">>})
    /\ <>Terminated

C1_Witness == pc = "done" /\ calls = <<"sendPhoto">> /\ variant = "telegram_post"

HasMessageId(r) ==
    r # NoResp /\ Ok(r) /\ r.body.json /\ r.body.hasResult /\ r.body.hasId

C4_ValidationFailureNeverReachesNetwork ==
    /\ (opens > 0 \/ fileOpen \/ "sendPhoto" \in Range(calls)) =>
         _validate_image(args.image, imgSize).type = "ok"
    /\ exc.type = "ValueError" =>
         /\ exc = _validate_image(args.image, imgSize)
         /\ exc.kind \in {"InvalidFormat", "TooLarge"}
         /\ opens = 0 /\ ~fileOpen
         /\ calls = <<>> /\ request = NoRequest /\ resp = NoResp
    /\ (pc = "raised" /\ args.image # None
        /\ _validate_image(args.image, imgSize).type # "ok") =>
         exc = _validate_image(args.image, imgSize)

C4_Witness ==
    /\ pc = "raised"
    /\ exc.type = "ValueError" /\ exc.kind = "TooLarge"
    /\ opens = 0 /\ calls = <<>>

Success == result # NoResult /\ stdout = <<result.url>>
ImageMissing == args.image # None /\ channel # None /\ imgSize = -1
EmptyText == args.image = None /\ text = <<>>
ValidationFailed == exc.type = "ValueError"
MissingCredential == bot_token = ""
MissingChannel == args.channel = None

\* C5 as stated: status 0 on success and status 1 for a missing image file,
\* an empty text without image, a validation failure, a missing credential
\* and a missing --channel.
C5_ExitCodeOneForEveryFailure ==
    Terminated =>
        /\ Success => exitCode = 0
        /\ ImageMissing => exitCode = 1
        /\ EmptyText => exitCode = 1
        /\ ValidationFailed => exitCode = 1
        /\ MissingCredential => exitCode = 1
        /\ MissingChannel => exitCode = 1

\* C5 amended: status 0 on success, status 1 for a missing image file, an
\* empty text without image, a validation failure and a missing credential,
\* and status 2 (the argument parser's usage error) for a missing --channel.
C5_ExitCodes ==
    Terminated =>
        /\ Success => exitCode = 0
        /\ ImageMissing => exitCode = 1
        /\ EmptyText => exitCode = 1
        /\ ValidationFailed => exitCode = 1
        /\ MissingCredential => exitCode = 1
        /\ MissingChannel => exitCode = 2

C5_Witness == Terminated /\ ValidationFailed /\ exitCode = 1 /\ variant = "tg"

\* C6: a missing credential, a missing --channel and an empty text without
\* image end the invocation with no client constructed and no POST made; a
\* client exists only with a non-empty credential, and a POST only with a client.
C6_InputFailuresPrecedeClient ==
    /\ client # {} =>
         /\ bot_token \notin {"", NoStr}
         /\ client = {[api_url |-> <<_BASE_URL, bot_token>>]}
         /\ args.channel # None
         /\ args.image = None => Truthy(text)
    /\ calls # <<>> => client # {}
    /\ (Terminated /\ (MissingCredential \/ MissingChannel \/ EmptyText)) =>
         client = {} /\ calls = <<>>

C6_Witness ==
    /\ Terminated /\ EmptyText /\ ~MissingCredential /\ variant = "tg"
    /\ client = {} /\ calls = <<>>

\* C7: the photo handle is opened once, after validation passed and right
\* before the POST, is open only around the POST, and is closed whenever
\* send_photo has returned or raised, whatever the request did.
C7_PhotoHandleScoped ==
    /\ opens <= 1
    /\ opens > 0 => _validate_image(args.image, imgSize).type = "ok"
    /\ fileOpen => opens = 1 /\ pc \in {"sp_post", "sp_exit_with"}
    /\ pc = "sp_post" => fileOpen /\ calls = <<>>
    /\ pc \in {"sp_check", "returned", "raised", "done", "exited"} => ~fileOpen

C7_Witness ==
    /\ pc = "raised" /\ exc.type = "ConnectionError"
    /\ opens = 1 /\ ~fileOpen /\ calls = <<"sendPhoto">>

C8_Upper(c) ==
    CASE c = "b" -> "B" [] c = "e" -> "E" [] c = "f" -> "F" [] c = "g" -> "G"
      [] c = "i" -> "I" [] c = "j" -> "J" [] c = "n" -> "N" [] c = "p" -> "P"
      [] c = "w" -> "W" [] OTHER -> c

C8_IsSpelling(ext, lower) ==
    /\ Len(ext) = Len(lower)
    /\ \A i \in 1..Len(ext) : ext[i] = lower[i] \/ ext[i] = C8_Upper(lower[i])

C8_Expected(ext, size) ==
    IF ~\E t \in { <<".", "j", "p", "g">>, <<".", "j", "p", "e", "g">>,
                   <<".", "p", "n", "g">>, <<".", "g", "i", "f">>,
                   <<".", "w", "e", "b", "p">> } : C8_IsSpelling(ext, t)
    THEN "InvalidFormat"
    ELSE IF size > 10485760 THEN "TooLarge" ELSE "ok"

C8_Validated ==
    /\ args.image # None
    /\ \/ pc \in {"sp_open", "sp_post", "sp_exit_with", "sp_check", "returned",
                  "raised", "done"}
       \/ pc = "exited" /\ exc # NoExc

\* C8: once the validator has run on an image of some extension and size, its
\* outcome is InvalidFormat when the extension in lower case is not .jpg,
\* .jpeg, .png, .gif or .webp (whatever the size), otherwise TooLarge when the
\* size exceeds 10,485,760 bytes, otherwise acceptance.
C8_ValidatorOutcome ==
    C8_Validated =>
        (IF exc.type = "ValueError" THEN exc.kind ELSE "ok")
            = C8_Expected(args.image, imgSize)

C8_Witness ==
    /\ pc = "sp_open"
    /\ args.image = <<".", "P", "N", "G">>
    /\ imgSize = 10485760

StartsWithAt(c) == c # <<>> /\ Head(c) = "@"

\* C9: the normalized channel is the --channel argument itself when that
\* starts with "@" and the argument with "@" put in front otherwise, for every
\* argument including the empty one, and normalizing it again changes nothing.
C9_NormalizeIdempotent ==
    /\ pc = "normalize" => ENABLED NormalizeChannel
    /\ channel # None =>
         /\ StartsWithAt(args.channel) => channel = args.channel
         /\ ~StartsWithAt(args.channel) =>
              Head(channel) = "@" /\ Tail(channel) = args.channel
         /\ normalize_channel(channel) = channel

C9_Witness ==
    /\ args.channel = <<"1", "1">>
    /\ channel = <<"@", "1", "1">>

\* C10: the JSON body of sendMessage has the keys chat_id and text, and the
\* key parse_mode exactly when a parse mode was given; the form fields of
\* sendPhoto have chat_id, caption exactly when a caption was given and
\* parse_mode exactly when a parse mode was given; no key holds None.
C10_AbsentFieldsAreMissingKeys ==
    /\ request.endpoint = "sendMessage" =>
         /\ DOMAIN request.json =
              IF args.parse_mode = NoStr THEN {"chat_id", "text"}
              ELSE {"chat_id", "text", "parse_mode"}
         /\ request.json.chat_id = channel /\ channel # None
         /\ request.json.text = text /\ text # None
         /\ "parse_mode" \in DOMAIN request.json =>
              request.json.parse_mode = args.parse_mode
    /\ request.endpoint = "sendPhoto" =>
         /\ DOMAIN request.data =
              {"chat_id"} \cup (IF caption = None THEN {} ELSE {"caption"})
                          \cup (IF args.parse_mode = NoStr THEN {} ELSE {"parse_mode"})
         /\ request.data.chat_id = channel /\ channel # None
         /\ "caption" \in DOMAIN request.data => request.data.caption = caption
         /\ "parse_mode" \in DOMAIN request.data =>
              request.data.parse_mode = args.parse_mode

C10_Witness ==
    /\ request.endpoint = "sendMessage"
    /\ args.parse_mode = NoStr
    /\ DOMAIN request.json = {"chat_id", "text"}

C11_Decimal(m) ==
    LET d == [i \in 0..9 |-> <<"0", "1", "2", "3", "4", "5", "6", "7", "8", "9">>[i + 1]]
    IN IF m < 10 THEN <<d[m]>> ELSE <<d[m \div 10], d[m % 10]>>

\* C11: when send_message or send_photo returns for a chat id that begins with
\* "@" after a successful response holding message id m, the PostResult has
\* message_id m and the url "https://t.me/", the chat id without its leading
\* "@", "/" and m in decimal; @1 and 42 give https://t.me/1/42.
C11_PostResultUrl ==
    (result # NoResult /\ StartsWithAt(channel)) =>
        /\ result.message_id = resp.body.id
        /\ result.url = <<"https://t.me/">> \o Tail(channel) \o <<"/">>
                            \o C11_Decimal(resp.body.id)
        /\ calls \in {<<"sendMessage">>, <<"sendPhoto">>}

C11_Witness ==
    /\ pc = "returned"
    /\ calls = <<"sendPhoto">>
    /\ channel = <<"@", "1">>
    /\ result = [message_id |-> 42, url |-> <<"https://t.me/", "1", "/", "4", "2">>]

====
